---- MODULE Spec2Model ----
(***************************************************************************)
(* Server side of the Veyon RFB handshake: VncServerProtocol.              *)
(*                                                                         *)
(* One connection is modelled.  Its state is the VncServerClient record    *)
(* (protocol state, authentication state, access control state, auth type, *)
(* username, host address), the QTcpSocket (open flag, bytes available,    *)
(* writes made) and the server init message.  The environment is the       *)
(* client putting bytes on the wire, the transport delivering them in      *)
(* arbitrary chunks, the ServerAuthenticationManager, the                  *)
(* ServerAccessControlManager and the owner supplying the server init      *)
(* message.                                                                *)
(*                                                                         *)
(* Bytes are integers 0..255; characters are their ASCII codes.            *)
(***************************************************************************)
EXTENDS Integers, Sequences, FiniteSets, TLC

VARIABLES
    protocolState,       \* m_client->protocolState()
    authState,           \* m_client->authState()
    accessControlState,  \* m_client->accessControlState()
    authType,            \* m_client->authType(), 0 while unset
    username,            \* m_client->username(), <<>> while unset
    hostAddress,         \* m_client->hostAddress(), <<>> while unset
    serverInitMessage,   \* m_serverInitMessage
    sockOpen,            \* m_socket is open
    sockIn,              \* bytes available on m_socket, oldest first
    sockOut,             \* the writes made to m_socket, oldest first
    supportedAuthTypes,  \* m_serverAuthenticationManager.supportedAuthTypes()
    wire,                \* bytes sent by the client and not yet delivered
    clientStep,          \* the next segment the client sends
    authMsgsSent,        \* authentication messages the client has sent
    lastOp,              \* the operation executed last
    lastFrom,            \* protocolState when the last call into the protocol began
    lastOpen,            \* whether the socket was open when that call began
    lastRet,             \* what the last read() returned
    lastAdded,           \* the last operation called addClient()
    lastAuthCalled       \* the last operation called processAuthenticationMessage()

vars == << protocolState, authState, accessControlState, authType, username,
           hostAddress, serverInitMessage, sockOpen, sockIn, sockOut,
           supportedAuthTypes, wire, clientStep, authMsgsSent,
           lastOp, lastFrom, lastOpen, lastRet, lastAdded, lastAuthCalled >>

----------------------------------------------------------------------------
(* Program constants *)

\* rfb/rfbproto.h, used at VncServerProtocol.cpp:137
sz_rfbProtocolVersionMsg == 12
\* rfb/rfbproto.h, used at VncServerProtocol.cpp:337
sz_rfbClientInitMsg == 1
\* rfb/rfbproto.h, used at VncServerProtocol.cpp:165
rfbSecTypeVeyon == 40
\* rfb/rfbproto.h, used at VncServerProtocol.cpp:281
rfbVncAuthOK == 0
\* RfbVeyonAuth::None, used at VncServerProtocol.cpp:231
AuthNone == 1
\* RfbVeyonAuth::Logon, a type that needs a credential exchange
AuthLogon == 4
\* RfbVeyonAuth::Token, used here as a type the server never advertises
AuthToken == 5

(* Bounds of the model *)

\* authentication messages the client sends at most
MaxAuthMsgs == 1

----------------------------------------------------------------------------
(* The phase ordering of VncServerProtocol::State *)

States == << "Disconnected", "Protocol", "SecurityInit", "AuthenticationTypes",
             "Authenticating", "AccessControl", "FramebufferInit", "Running",
             "Close" >>

StateRank(s) == CHOOSE i \in 1..Len(States) : States[i] = s

AuthStates == { "AuthInit", "AuthInProgress", "AuthFinishedSuccess", "AuthFinishedFail" }

AccessControlStates == { "AccessControlInit", "AccessControlWaiting",
                         "AccessControlPending", "AccessControlSuccessful",
                         "AccessControlFailed" }

----------------------------------------------------------------------------
(* Characters and the version format "RFB %03d.%03d\n" *)

IsSpace(c) == c \in {9, 10, 11, 12, 13, 32}
IsDigit(c) == c \in 48..57

\* sprintf( protocol, rfbProtocolVersionFormat, 3, 8 ): "RFB 003.008\n"
ProtocolVersionMsg == << 82, 70, 66, 32, 48, 48, 51, 46, 48, 48, 56, 10 >>

\* the C string held by a buffer: the bytes before the first NUL
CString(buf) ==
    LET nul == { i \in 1..Len(buf) : buf[i] = 0 }
    IN  IF nul = {} THEN buf
        ELSE SubSeq(buf, 1, (CHOOSE i \in nul : \A j \in nul : i <= j) - 1)

RECURSIVE SkipSpace(_, _)
SkipSpace(s, i) ==
    IF i <= Len(s) /\ IsSpace(s[i]) THEN SkipSpace(s, i + 1) ELSE i

RECURSIVE CountDigits(_, _, _)
CountDigits(s, i, width) ==
    IF width > 0 /\ i <= Len(s) /\ IsDigit(s[i])
    THEN 1 + CountDigits(s, i + 1, width - 1)
    ELSE 0

\* the conversion %03d at index i: [ok, next] where next is the index after
\* the digits, and eof tells that the input ended before any character of
\* the number, a sign included, was read (an input failure; a sign with no
\* digit after it is a matching failure)
ScanInt3(s, i) ==
    LET j    == SkipSpace(s, i)
        sign == j <= Len(s) /\ s[j] \in {43, 45}
        k    == IF sign THEN j + 1 ELSE j
        nd   == CountDigits(s, k, IF sign THEN 2 ELSE 3)
    IN  [ ok |-> nd > 0, next |-> k + nd, eof |-> nd = 0 /\ ~ sign /\ k > Len(s) ]

\* sscanf( protocol, "RFB %03d.%03d\n", &major, &minor ): the number of
\* conversions made, or -1 (EOF) when the input ends before the first one
sscanfProtocolVersion(buf) ==
    LET s == CString(buf)
        lit == << 82, 70, 66 >>
        mism == { i \in 1..3 : i > Len(s) \/ s[i] # lit[i] }
        first == IF mism = {} THEN 4 ELSE CHOOSE i \in mism : \A j \in mism : i <= j
    IN  IF mism # {}
        THEN IF first > Len(s) THEN -1 ELSE 0
        ELSE LET a == ScanInt3(s, SkipSpace(s, 4))
             IN  IF ~ a.ok THEN (IF a.eof THEN -1 ELSE 0)
                 ELSE IF a.next > Len(s) \/ s[a.next] # 46 THEN 1
                 ELSE IF ScanInt3(s, a.next + 1).ok THEN 2 ELSE 1

\* qToBigEndian<uint32_t>( v ) as the four bytes written
BigEndian32(v) ==
    << (v \div 16777216) % 256, (v \div 65536) % 256, (v \div 256) % 256, v % 256 >>

----------------------------------------------------------------------------
(* The connection as one record: what a handler reads and changes *)

Conn == [ protocolState      |-> protocolState,
          authState          |-> authState,
          accessControlState |-> accessControlState,
          authType           |-> authType,
          username           |-> username,
          hostAddress        |-> hostAddress,
          open               |-> sockOpen,
          in                 |-> sockIn,
          out                |-> sockOut,
          added              |-> FALSE,
          authCalled         |-> FALSE ]

Result(c, ret) == [ c |-> c, ret |-> ret ]

----------------------------------------------------------------------------
(* QTcpSocket *)

bytesAvailable(c) == Len(c.in)

\* read( n ): the first n bytes leave the buffer
socketRead(c, n) == [ c EXCEPT !.in = SubSeq(@, n + 1, Len(@)) ]

\* write( data ): one write, recorded whole; a closed socket takes nothing
socketWrite(c, data) == IF c.open THEN [ c EXCEPT !.out = Append(@, data) ] ELSE c

\* close(): the device is closed and its read buffer discarded
socketClose(c) == [ c EXCEPT !.open = FALSE, !.in = << >> ]

\* peerAddress().toString()
PeerAddress == << 49, 50, 55 >>

----------------------------------------------------------------------------
(* VariantArrayMessage: one size byte, then one byte per value *)

\* a byte no value decodes from
Undecodable == 255

Frame(payload) == << Len(payload) >> \o payload

isReadyForReceive(c) ==
    /\ bytesAvailable(c) >= 1
    /\ bytesAvailable(c) >= 1 + c.in[1]

\* the values of the message at the head of the buffer
messageValues(c) == SubSeq(c.in, 2, 1 + c.in[1])

\* receive(): the whole message leaves the buffer; FALSE when it does not decode
receive(c) ==
    Result(socketRead(c, 1 + c.in[1]), Undecodable \notin
               { messageValues(c)[i] : i \in 1..Len(messageValues(c)) })

\* read(): the k-th value, an invalid QVariant (0) when there is none
messageRead(values, k) == IF k <= Len(values) THEN values[k] ELSE 0

\* read().toString()
messageReadString(values, k) == IF k <= Len(values) THEN << values[k] >> ELSE << >>

\* send(): the message is written as one unit; TRUE when it was written
send(c, values) == Result(socketWrite(c, Frame(values)), c.open)

----------------------------------------------------------------------------
(* VncServerProtocol *)

setState(c, state) == [ c EXCEPT !.protocolState = state ]

\* start() without the check that the connection is still Disconnected
start_AnyState(c) == setState(socketWrite(c, ProtocolVersionMsg), "Protocol")

start(c) ==
    IF c.protocolState = "Disconnected"
    THEN setState(socketWrite(c, ProtocolVersionMsg), "Protocol")
    ELSE c

sendSecurityTypes(c) == Result(socketWrite(c, << 1, rfbSecTypeVeyon >>), TRUE)

\* readProtocol() that returns true also while the banner is incomplete
readProtocol_TrueWhenIncomplete(c) ==
    IF bytesAvailable(c) = sz_rfbProtocolVersionMsg
    THEN LET protocol == SubSeq(c.in, 1, sz_rfbProtocolVersionMsg)
             c1       == socketRead(c, sz_rfbProtocolVersionMsg)
         IN  IF sscanfProtocolVersion(protocol) # 2
             THEN Result(socketClose(c1), FALSE)
             ELSE sendSecurityTypes(setState(c1, "SecurityInit"))
    ELSE Result(c, TRUE)

readProtocol(c) ==
    IF bytesAvailable(c) = sz_rfbProtocolVersionMsg
    THEN LET protocol == SubSeq(c.in, 1, sz_rfbProtocolVersionMsg)
             c1       == socketRead(c, sz_rfbProtocolVersionMsg)
         IN  IF sscanfProtocolVersion(protocol) # 2
             THEN Result(socketClose(c1), FALSE)
             ELSE sendSecurityTypes(setState(c1, "SecurityInit"))
    ELSE Result(c, FALSE)

sendAuthenticationTypes(c) ==
    send(c, << Len(supportedAuthTypes) >> \o supportedAuthTypes)

\* receiveSecurityTypeResponse() without the comparison with rfbSecTypeVeyon
receiveSecurityTypeResponse_AnyType(c) ==
    IF bytesAvailable(c) >= 1
    THEN sendAuthenticationTypes(setState(socketRead(c, 1), "AuthenticationTypes"))
    ELSE Result(c, FALSE)

receiveSecurityTypeResponse(c) ==
    IF bytesAvailable(c) >= 1
    THEN LET chosenSecurityType == c.in[1]
             c1                 == socketRead(c, 1)
         IN  IF chosenSecurityType # rfbSecTypeVeyon
             THEN Result(socketClose(c1), FALSE)
             ELSE sendAuthenticationTypes(setState(c1, "AuthenticationTypes"))
    ELSE Result(c, FALSE)

\* ServerAuthenticationManager::processAuthenticationMessage(): the manager
\* moves the authentication state to authAns and, while the exchange goes on,
\* writes its next message itself
AuthChallenge == << 67 >>

processAuthenticationMessage(c, authAns) ==
    LET c1 == [ c EXCEPT !.authState = authAns, !.authCalled = TRUE ]
    IN  IF authAns = "AuthInProgress" THEN send(c1, AuthChallenge).c ELSE c1

\* processAuthentication() that advances on AuthFinishedSuccess without
\* writing the success code
processAuthentication_NoSuccessCode(c, authAns) ==
    LET c1 == processAuthenticationMessage(c, authAns)
    IN  CASE c1.authState = "AuthFinishedSuccess" ->
                 Result(setState(c1, "AccessControl"), TRUE)
          [] c1.authState = "AuthFinishedFail" ->
                 Result(socketClose(c1), FALSE)
          [] OTHER -> Result(c1, FALSE)

processAuthentication(c, authAns) ==
    LET c1 == processAuthenticationMessage(c, authAns)
    IN  CASE c1.authState = "AuthFinishedSuccess" ->
                 Result(setState(socketWrite(c1, BigEndian32(rfbVncAuthOK)),
                                 "AccessControl"), TRUE)
          [] c1.authState = "AuthFinishedFail" ->
                 Result(socketClose(c1), FALSE)
          [] OTHER -> Result(c1, FALSE)

\* receiveAuthenticationTypeResponse() without the check against the
\* supported types
receiveAuthenticationTypeResponse_NoSupportedCheck(c, authAns) ==
    IF isReadyForReceive(c) /\ receive(c).ret
    THEN LET values         == messageValues(c)
             c1             == receive(c).c
             chosenAuthType == messageRead(values, 1)
         IN  IF chosenAuthType = AuthNone
             THEN Result(setState(c1, "AccessControl"), TRUE)
             ELSE LET c2 == [ c1 EXCEPT !.authType = chosenAuthType,
                                        !.username = messageReadString(values, 2),
                                        !.hostAddress = PeerAddress ]
                      c3 == send(setState(c2, "Authenticating"), << >>).c
                  IN  Result(processAuthentication(c3, authAns).c, FALSE)
    ELSE IF isReadyForReceive(c)
    THEN Result(receive(c).c, FALSE)
    ELSE Result(c, FALSE)

\* receiveAuthenticationTypeResponse() without the shortcut for
\* RfbVeyonAuth::None
receiveAuthenticationTypeResponse_NoneAuthenticates(c, authAns) ==
    IF isReadyForReceive(c) /\ receive(c).ret
    THEN LET values         == messageValues(c)
             c1             == receive(c).c
             chosenAuthType == messageRead(values, 1)
         IN  IF chosenAuthType \notin { supportedAuthTypes[i] :
                                            i \in 1..Len(supportedAuthTypes) }
             THEN Result(socketClose(c1), FALSE)
             ELSE LET c2 == [ c1 EXCEPT !.authType = chosenAuthType,
                                        !.username = messageReadString(values, 2),
                                        !.hostAddress = PeerAddress ]
                      c3 == send(setState(c2, "Authenticating"), << >>).c
                  IN  Result(processAuthentication(c3, authAns).c, FALSE)
    ELSE IF isReadyForReceive(c)
    THEN Result(receive(c).c, FALSE)
    ELSE Result(c, FALSE)

receiveAuthenticationTypeResponse(c, authAns) ==
    IF isReadyForReceive(c) /\ receive(c).ret
    THEN LET values         == messageValues(c)
             c1             == receive(c).c
             chosenAuthType == messageRead(values, 1)
         IN  IF chosenAuthType \notin { supportedAuthTypes[i] :
                                            i \in 1..Len(supportedAuthTypes) }
             THEN Result(socketClose(c1), FALSE)
             ELSE IF chosenAuthType = AuthNone
             THEN Result(setState(c1, "AccessControl"), TRUE)
             ELSE LET c2 == [ c1 EXCEPT !.authType = chosenAuthType,
                                        !.username = messageReadString(values, 2),
                                        !.hostAddress = PeerAddress ]
                      c3 == send(setState(c2, "Authenticating"), << >>).c
                  IN  Result(processAuthentication(c3, authAns).c, FALSE)
    ELSE IF isReadyForReceive(c)
    THEN Result(receive(c).c, FALSE)
    ELSE Result(c, FALSE)

receiveAuthenticationMessage(c, authAns) ==
    IF isReadyForReceive(c) /\ receive(c).ret
    THEN processAuthentication(receive(c).c, authAns)
    ELSE IF isReadyForReceive(c)
    THEN Result(receive(c).c, FALSE)
    ELSE Result(c, FALSE)

\* ServerAccessControlManager::addClient(): the manager leaves the access
\* control state at acAns
addClient(c, acAns) == [ c EXCEPT !.accessControlState = acAns, !.added = TRUE ]

\* processAccessControl() with AccessControlPending left to the default branch
processAccessControl_PendingFatal(c, acAns) ==
    LET c1 == IF c.accessControlState \in { "AccessControlInit", "AccessControlWaiting" }
              THEN addClient(c, acAns)
              ELSE c
    IN  CASE c1.accessControlState = "AccessControlSuccessful" ->
                 Result(setState(c1, "FramebufferInit"), TRUE)
          [] c1.accessControlState = "AccessControlWaiting" ->
                 Result(c1, FALSE)
          [] OTHER -> Result(socketClose(c1), FALSE)

\* processAccessControl() that submits the client only in AccessControlInit
processAccessControl_InitOnly(c, acAns) ==
    LET c1 == IF c.accessControlState = "AccessControlInit"
              THEN addClient(c, acAns)
              ELSE c
    IN  CASE c1.accessControlState = "AccessControlSuccessful" ->
                 Result(setState(c1, "FramebufferInit"), TRUE)
          [] c1.accessControlState \in { "AccessControlPending", "AccessControlWaiting" } ->
                 Result(c1, FALSE)
          [] OTHER -> Result(socketClose(c1), FALSE)

processAccessControl(c, acAns) ==
    LET c1 == IF c.accessControlState \in { "AccessControlInit", "AccessControlWaiting" }
              THEN addClient(c, acAns)
              ELSE c
    IN  CASE c1.accessControlState = "AccessControlSuccessful" ->
                 Result(setState(c1, "FramebufferInit"), TRUE)
          [] c1.accessControlState \in { "AccessControlPending", "AccessControlWaiting" } ->
                 Result(c1, FALSE)
          [] OTHER -> Result(socketClose(c1), FALSE)

\* processFramebufferInit() without the check that the server init message
\* has been set
processFramebufferInit_NoPayloadCheck(c) ==
    IF bytesAvailable(c) >= sz_rfbClientInitMsg
    THEN Result(setState(socketWrite(socketRead(c, sz_rfbClientInitMsg),
                                     serverInitMessage), "Running"), TRUE)
    ELSE Result(c, FALSE)

processFramebufferInit(c) ==
    IF bytesAvailable(c) >= sz_rfbClientInitMsg /\ serverInitMessage # << >>
    THEN Result(setState(socketWrite(socketRead(c, sz_rfbClientInitMsg),
                                     serverInitMessage), "Running"), TRUE)
    ELSE Result(c, FALSE)

read(c, authAns, acAns) ==
    CASE c.protocolState = "Protocol"            -> readProtocol(c)
      [] c.protocolState = "SecurityInit"        -> receiveSecurityTypeResponse(c)
      [] c.protocolState = "AuthenticationTypes" -> receiveAuthenticationTypeResponse(c, authAns)
      [] c.protocolState = "Authenticating"      -> receiveAuthenticationMessage(c, authAns)
      [] c.protocolState = "AccessControl"       -> processAccessControl(c, acAns)
      [] c.protocolState = "FramebufferInit"     -> processFramebufferInit(c)
      [] c.protocolState = "Close"               -> Result(socketClose(c), FALSE)
      [] OTHER                                   -> Result(c, FALSE)

\* while( read() ) { }
RECURSIVE readWhileTrue(_, _, _)
readWhileTrue(c, authAns, acAns) ==
    LET r == read(c, authAns, acAns)
    IN  IF r.ret THEN readWhileTrue(r.c, authAns, acAns) ELSE r.c

Self == "m_client"
OtherClient == "other"

\* finishAccessControl() without the loop that drains the buffer
finishAccessControl_NoDrain(c, client, authAns, acAns) ==
    IF client = Self THEN processAccessControl(c, acAns).c ELSE c

\* finishAccessControl() without the comparison of the client with m_client
finishAccessControl_AnyClient(c, client, authAns, acAns) ==
    IF processAccessControl(c, acAns).ret
    THEN readWhileTrue(processAccessControl(c, acAns).c, authAns, acAns)
    ELSE processAccessControl(c, acAns).c

finishAccessControl(c, client, authAns, acAns) ==
    IF client = Self /\ processAccessControl(c, acAns).ret
    THEN readWhileTrue(processAccessControl(c, acAns).c, authAns, acAns)
    ELSE IF client = Self THEN processAccessControl(c, acAns).c ELSE c

----------------------------------------------------------------------------
(* What the environment may do *)

\* the lists of authentication types a server is configured with
SupportedChoices == { << AuthLogon >>, << AuthNone, AuthLogon >> }

\* what processAuthenticationMessage() may leave in authState
AuthAnswers == { "AuthInProgress", "AuthFinishedSuccess", "AuthFinishedFail" }

\* what addClient() may leave in accessControlState: a decision, or the state
\* as it was when the manager only queues the client
AddClientAnswers == { accessControlState, "AccessControlWaiting", "AccessControlPending",
                      "AccessControlSuccessful", "AccessControlFailed" }

\* the answers a call can consult: the authentication manager is called in the
\* two authentication phases only, addClient() in the Init and Waiting states only
AuthAnswersAt(state) ==
    IF state \in { "AuthenticationTypes", "Authenticating" }
    THEN AuthAnswers ELSE { "AuthInProgress" }

AddClientAnswersAt(acState) ==
    IF acState \in { "AccessControlInit", "AccessControlWaiting" }
    THEN AddClientAnswers ELSE { acState }

\* the server init message as the owner supplies it
ServerInitBlob == << 83, 73 >>

\* "RFB 003x008\n": the second number is missing
MalformedVersionMsg == << 82, 70, 66, 32, 48, 48, 51, 120, 48, 48, 56, 10 >>

\* the segments a client may send at each step of its side of the handshake
Segments(step) ==
    CASE step = "banner"     -> { ProtocolVersionMsg, MalformedVersionMsg }
      [] step = "sectype"    -> { << rfbSecTypeVeyon >>, << 2 >> }
      [] step = "authtype"   -> { Frame(<< AuthNone >>), Frame(<< AuthLogon, 117 >>),
                                  Frame(<< AuthToken, 117 >>), Frame(<< Undecodable >>) }
      [] step = "auth"       -> { Frame(<< 99 >>), Frame(<< Undecodable >>) }
      [] step = "clientinit" -> { << 1 >> }
      [] step = "rfb"        -> { << 3 >> }
      [] OTHER               -> { }

NextStep(step) ==
    CASE step = "banner"     -> "sectype"
      [] step = "sectype"    -> "authtype"
      [] step = "authtype"   -> "auth"
      [] step = "auth"       -> "clientinit"
      [] step = "clientinit" -> "rfb"
      [] OTHER               -> "done"

----------------------------------------------------------------------------
(* The state machine *)

Init ==
    /\ protocolState = "Disconnected"
    /\ authState = "AuthInit"
    /\ accessControlState = "AccessControlInit"
    /\ authType = 0
    /\ username = << >>
    /\ hostAddress = << >>
    /\ serverInitMessage = << >>
    /\ sockOpen = TRUE
    /\ sockIn = << >>
    /\ sockOut = << >>
    /\ supportedAuthTypes \in SupportedChoices
    /\ wire = << >>
    /\ clientStep = "banner"
    /\ authMsgsSent = 0
    /\ lastOp = "env"
    /\ lastFrom = "Disconnected"
    /\ lastOpen = TRUE
    /\ lastRet = FALSE
    /\ lastAdded = FALSE
    /\ lastAuthCalled = FALSE

\* the connection after a handler ran
Commit(c) ==
    /\ protocolState' = c.protocolState
    /\ authState' = c.authState
    /\ accessControlState' = c.accessControlState
    /\ authType' = c.authType
    /\ username' = c.username
    /\ hostAddress' = c.hostAddress
    /\ sockOpen' = c.open
    /\ sockIn' = c.in
    /\ sockOut' = c.out
    /\ lastFrom' = protocolState
    /\ lastOpen' = sockOpen
    /\ lastAdded' = c.added
    /\ lastAuthCalled' = c.authCalled

connVars == << protocolState, authState, accessControlState, authType, username,
               hostAddress, sockOpen, sockIn, sockOut >>

clientVars == << wire, clientStep, authMsgsSent >>

\* a step of the environment: no call into the protocol
EnvStep ==
    /\ lastOp' = "env"
    /\ lastFrom' = protocolState
    /\ lastOpen' = sockOpen
    /\ lastAdded' = FALSE
    /\ lastAuthCalled' = FALSE

\* VncServerProtocol::start()
Start ==
    /\ Commit(start(Conn))
    /\ lastOp' = "start"
    /\ UNCHANGED << serverInitMessage, supportedAuthTypes, clientVars, lastRet >>

ReadWith(authAns, acAns) ==
    /\ Commit(read(Conn, authAns, acAns).c)
    /\ lastRet' = read(Conn, authAns, acAns).ret
    /\ lastOp' = "read"
    /\ UNCHANGED << serverInitMessage, supportedAuthTypes, clientVars >>

FinishAccessControlWith(client, authAns, acAns) ==
    /\ Commit(finishAccessControl(Conn, client, authAns, acAns))
    /\ lastOp' = IF client = Self THEN "finishAccessControl" ELSE "finishAccessControlOther"
    /\ UNCHANGED << serverInitMessage, supportedAuthTypes, clientVars, lastRet >>

\* VncServerProtocol::read(), called once
Read ==
    \E authAns \in AuthAnswersAt(protocolState) :
        \E acAns \in (IF protocolState = "AccessControl"
                        THEN AddClientAnswersAt(accessControlState)
                        ELSE { accessControlState }) :
            ReadWith(authAns, acAns)

\* the slot VncServerProtocol::finishAccessControl( client )
FinishAccessControl ==
    \E client \in { Self, OtherClient } :
        \E acAns \in (IF client = Self THEN AddClientAnswersAt(accessControlState)
                        ELSE { accessControlState }) :
            FinishAccessControlWith(client, "AuthInProgress", acAns)

\* the owner supplies the server init message, once
SetServerInitMessage ==
    /\ serverInitMessage = << >>
    /\ serverInitMessage' = ServerInitBlob
    /\ EnvStep
    /\ UNCHANGED << connVars, supportedAuthTypes, clientVars, lastRet >>

\* the access control manager reaches its decision for a queued client
AccessControlDecision ==
    /\ accessControlState \in { "AccessControlPending", "AccessControlWaiting" }
    /\ accessControlState' \in { "AccessControlSuccessful", "AccessControlFailed" }
    /\ EnvStep
    /\ UNCHANGED << protocolState, authState, authType, username, hostAddress,
                    sockOpen, sockIn, sockOut, serverInitMessage, supportedAuthTypes,
                    clientVars, lastRet >>

\* the client sends the next segment of its side of the handshake, once the
\* transport has taken the one before
ClientSendSeg(seg) ==
    /\ sockOpen
    /\ wire = << >>
    /\ seg \in Segments(clientStep)
    /\ clientStep = "auth" => authMsgsSent < MaxAuthMsgs
    /\ wire' = wire \o seg
    /\ authMsgsSent' = IF clientStep = "auth" THEN authMsgsSent + 1 ELSE authMsgsSent
    /\ clientStep' = IF clientStep = "auth" THEN "auth" ELSE NextStep(clientStep)
    /\ EnvStep
    /\ UNCHANGED << connVars, serverInitMessage, supportedAuthTypes, lastRet >>

ClientSend == \E seg \in Segments(clientStep) : ClientSendSeg(seg)

\* the client sends no (more) authentication messages
ClientSkipAuth ==
    /\ sockOpen
    /\ clientStep = "auth"
    /\ clientStep' = NextStep(clientStep)
    /\ EnvStep
    /\ UNCHANGED << connVars, serverInitMessage, supportedAuthTypes, wire, authMsgsSent,
                    lastRet >>

\* the transport delivers the next n bytes and signals readyRead
DeliverBytes(n) ==
    /\ sockOpen
    /\ n \in 1..Len(wire)
    /\ sockIn' = sockIn \o SubSeq(wire, 1, n)
    /\ wire' = SubSeq(wire, n + 1, Len(wire))
    /\ lastOp' = "deliver"
    /\ lastFrom' = protocolState
    /\ lastOpen' = sockOpen
    /\ lastAdded' = FALSE
    /\ lastAuthCalled' = FALSE
    /\ UNCHANGED << protocolState, authState, accessControlState, authType, username,
                    hostAddress, sockOpen, sockOut, serverInitMessage, supportedAuthTypes,
                    clientStep, authMsgsSent, lastRet >>

Deliver == \E n \in 1..Len(wire) : DeliverBytes(n)

Next ==
    \/ Start
    \/ Read
    \/ FinishAccessControl
    \/ SetServerInitMessage
    \/ AccessControlDecision
    \/ ClientSend
    \/ ClientSkipAuth
    \/ Deliver

Spec == Init /\ [][Next]_vars

TypeOK ==
    /\ protocolState \in { States[i] : i \in 1..Len(States) }
    /\ authState \in AuthStates
    /\ accessControlState \in AccessControlStates
    /\ sockOpen \in BOOLEAN
    /\ lastRet \in BOOLEAN

----------------------------------------------------------------------------
(* The handshake of a well-behaved client, driven as the owner of the       *)
(* connection drives it: on every readable event read() is called again     *)
(* while it returns true.  The server init message is supplied and start()  *)
(* called before any byte is delivered, the authentication manager accepts  *)
(* the client's one credential message and the access control manager      *)
(* approves at once.  The transport splits and joins the bytes as it likes. *)

\* a readable event is not drained yet: read() has not returned false since
ReadPending == lastOp = "deliver" \/ (lastOp = "read" /\ lastRet)

WellFormedSegments(step) ==
    CASE step = "banner"     -> { ProtocolVersionMsg }
      [] step = "sectype"    -> { << rfbSecTypeVeyon >> }
      [] step = "authtype"   -> { Frame(IF supportedAuthTypes[i] = AuthNone
                                        THEN << AuthNone >>
                                        ELSE << supportedAuthTypes[i], 117 >>) :
                                      i \in 1..Len(supportedAuthTypes) }
      [] step = "auth"       -> { Frame(<< 99 >>) }
      [] step = "clientinit" -> { << 1 >> }
      [] OTHER               -> { }

WellFormedNextStep(step, seg) ==
    CASE step = "authtype" -> IF seg = Frame(<< AuthNone >>) THEN "clientinit" ELSE "auth"
      [] step = "clientinit" -> "done"
      [] OTHER -> NextStep(step)

SupplyServerInitC3 ==
    /\ protocolState = "Disconnected"
    /\ SetServerInitMessage

StartC3 ==
    /\ protocolState = "Disconnected"
    /\ serverInitMessage # << >>
    /\ Start

ClientSendC3 ==
    /\ ~ ReadPending
    /\ \E seg \in WellFormedSegments(clientStep) :
          /\ wire' = wire \o seg
          /\ clientStep' = WellFormedNextStep(clientStep, seg)
          /\ authMsgsSent' = IF clientStep = "auth" THEN authMsgsSent + 1 ELSE authMsgsSent
    /\ EnvStep
    /\ UNCHANGED << connVars, serverInitMessage, supportedAuthTypes, lastRet >>

DeliverC3 ==
    /\ ~ ReadPending
    /\ protocolState # "Disconnected"
    /\ Deliver

DriverReadC3 ==
    /\ ReadPending
    /\ ReadWith(IF protocolState = "AuthenticationTypes"
                THEN "AuthInProgress" ELSE "AuthFinishedSuccess",
                "AccessControlSuccessful")

NextC3 ==
    \/ SupplyServerInitC3
    \/ StartC3
    \/ ClientSendC3
    \/ DeliverC3
    \/ DriverReadC3

SpecC3 == Init /\ [][NextC3]_vars

----------------------------------------------------------------------------
(* The access control manager notifies a connection only after the         *)
(* connection was submitted to it; everything else is as in Spec.           *)

FinishAccessControlSubmitted ==
    /\ accessControlState # "AccessControlInit"
    /\ FinishAccessControl

NextSubmitted ==
    \/ Start
    \/ Read
    \/ FinishAccessControlSubmitted
    \/ SetServerInitMessage
    \/ AccessControlDecision
    \/ ClientSend
    \/ ClientSkipAuth
    \/ Deliver

SpecSubmitted == Init /\ [][NextSubmitted]_vars

----------------------------------------------------------------------------
(* Claims *)

\* a step that is one call of read()
ReadStep == lastOp' = "read"

\* a step that is one notification addressed to this connection
NotifyStep == lastOp' = "finishAccessControl"

\* the first message in the buffer is complete and decodes
MessageReceived == isReadyForReceive(Conn) /\ receive(Conn).ret

\* the authentication type the first message in the buffer chooses
ChosenAuthType == messageRead(messageValues(Conn), 1)

SupportedSet == { supportedAuthTypes[i] : i \in 1..Len(supportedAuthTypes) }

\* the bytes the handler of the current state needs
BytesRequired ==
    CASE protocolState = "Protocol"        -> sz_rfbProtocolVersionMsg
      [] protocolState = "SecurityInit"    -> 1
      [] protocolState = "FramebufferInit" -> sz_rfbClientInitMsg
      [] OTHER -> IF sockIn = << >> THEN 1 ELSE 1 + sockIn[1]

ByteCountedStates == { "Protocol", "SecurityInit", "AuthenticationTypes",
                       "Authenticating", "FramebufferInit" }

\* the ways the claims are wrong, or right, of the code are recorded with
\* each formula; a formula named _Witness is a state in which the claim's
\* case has just happened

\* C1: across every sequence of start(), read() and finishAccessControl()
\* calls the protocol state never moves to an earlier state of the ordering
\* Disconnected < Protocol < ... < FramebufferInit < Running.
C1_StateNeverMovesBack ==
    [][ StateRank(protocolState') >= StateRank(protocolState) ]_vars

\* C2: whenever a call to read() returns false, the protocol state after the
\* call is the protocol state before it.
C2_FalseMeansNoProgress ==
    [][ (lastOp' = "read" /\ lastRet' = FALSE) => protocolState' = protocolState ]_vars

\* C3: the client has sent a well-formed, complete handshake, access control
\* approves and the server init message is there; once every byte has been
\* delivered, however split or joined, and the driver has called read() until
\* it returned false, the connection is Running.
C3_DrainedHandshakeIsRunning ==
    (clientStep = "done" /\ wire = << >> /\ ~ ReadPending) => protocolState = "Running"

\* C4, first half: in every state but AccessControl, with fewer bytes than
\* the state requires, read() returns false, consumes and writes nothing,
\* leaves the socket open and the state unchanged.
C4_TooFewBytes ==
    [][ (ReadStep /\ protocolState \in ByteCountedStates /\ Len(sockIn) < BytesRequired)
        => (/\ lastRet' = FALSE
            /\ sockIn' = sockIn
            /\ sockOut' = sockOut
            /\ sockOpen' = sockOpen
            /\ protocolState' = protocolState) ]_vars

\* C4: in every state but AccessControl, read() with fewer bytes than the
\* state requires returns false and changes nothing, and with the required
\* bytes there the handler consumes exactly the bytes of its state.
C4_ByteAccounting ==
    [][ /\ (ReadStep /\ protocolState \in ByteCountedStates /\ Len(sockIn) < BytesRequired)
           => (/\ lastRet' = FALSE
               /\ sockIn' = sockIn
               /\ sockOut' = sockOut
               /\ sockOpen' = sockOpen
               /\ protocolState' = protocolState)
        /\ (/\ ReadStep
            /\ protocolState \in ByteCountedStates
            /\ Len(sockIn) >= BytesRequired
            /\ protocolState = "FramebufferInit" => serverInitMessage # << >>
            /\ sockOpen')
           => sockIn' = SubSeq(sockIn, BytesRequired + 1, Len(sockIn)) ]_vars

\* C4 without the Protocol state: what remains true of the other handlers
C4_ConsumesItsBytesButProtocol ==
    [][ (/\ ReadStep
         /\ protocolState \in ByteCountedStates \ { "Protocol" }
         /\ Len(sockIn) >= BytesRequired
         /\ protocolState = "FramebufferInit" => serverInitMessage # << >>
         /\ sockOpen')
        => sockIn' = SubSeq(sockIn, BytesRequired + 1, Len(sockIn)) ]_vars

\* C5: a notification for this connection in AccessControl with access
\* control Successful moves to FramebufferInit and, when a whole client init
\* message is buffered and the server init message is there, consumes the
\* client init, writes the server init message and ends Running, all in the
\* one handling of the notification.
C5_NotificationCompletesHandshake ==
    [][ (/\ NotifyStep
         /\ protocolState = "AccessControl"
         /\ accessControlState = "AccessControlSuccessful")
        => IF Len(sockIn) >= sz_rfbClientInitMsg /\ serverInitMessage # << >>
           THEN /\ protocolState' = "Running"
                /\ sockIn' = SubSeq(sockIn, sz_rfbClientInitMsg + 1, Len(sockIn))
                /\ sockOut' = Append(sockOut, serverInitMessage)
           ELSE /\ protocolState' = "FramebufferInit"
                /\ sockIn' = sockIn
                /\ sockOut' = sockOut ]_vars

\* C5 happens: a notification found the connection in AccessControl, already
\* approved, and left it Running with the server init message written last
C5_Witness ==
    /\ lastOp = "finishAccessControl"
    /\ lastFrom = "AccessControl"
    /\ ~ lastAdded
    /\ accessControlState = "AccessControlSuccessful"
    /\ protocolState = "Running"
    /\ sockOut # << >>
    /\ sockOut[Len(sockOut)] = serverInitMessage

\* C6 as stated: in AccessControl with access control Pending or Waiting,
\* every read() returns false, leaves the socket open and the state unchanged.
C6_PendingOrWaitingStalls ==
    [][ (/\ ReadStep
         /\ protocolState = "AccessControl"
         /\ accessControlState \in { "AccessControlPending", "AccessControlWaiting" })
        => (/\ lastRet' = FALSE
            /\ sockOpen' = sockOpen
            /\ protocolState' = protocolState) ]_vars

\* C6 as amended: in AccessControl with access control Pending, or Waiting
\* and still Pending or Waiting after the client was submitted again, every
\* read() returns false, leaves the socket open and the state unchanged.
C6_UndecidedStalls ==
    [][ (/\ ReadStep
         /\ protocolState = "AccessControl"
         /\ \/ accessControlState = "AccessControlPending"
            \/ /\ accessControlState = "AccessControlWaiting"
               /\ accessControlState' \in { "AccessControlPending", "AccessControlWaiting" })
        => (/\ lastRet' = FALSE
            /\ sockOpen' = sockOpen
            /\ protocolState' = protocolState) ]_vars

\* C6 happens: read() was called in AccessControl on a client whose decision
\* is pending, with the client init already buffered, and returned false with
\* the connection as it was
C6_Witness ==
    /\ lastOp = "read"
    /\ lastFrom = "AccessControl"
    /\ protocolState = "AccessControl"
    /\ accessControlState = "AccessControlPending"
    /\ ~ lastAdded
    /\ ~ lastRet
    /\ sockOpen
    /\ sockIn # << >>

\* C7: in SecurityInit a security type other than the advertised one closes
\* the socket, the state stays SecurityInit and nothing is written; from then
\* on no byte is consumed, nothing is written, the socket stays closed and
\* the state never becomes AuthenticationTypes.
C7_WrongSecurityTypeCloses ==
    [][ /\ (/\ ReadStep
            /\ protocolState = "SecurityInit"
            /\ sockIn # << >>
            /\ sockIn[1] # rfbSecTypeVeyon)
           => (/\ ~ sockOpen'
               /\ lastRet' = FALSE
               /\ protocolState' = "SecurityInit"
               /\ sockOut' = sockOut)
        /\ (protocolState = "SecurityInit" /\ ~ sockOpen)
           => (/\ sockIn = << >>
               /\ sockIn' = << >>
               /\ sockOut' = sockOut
               /\ ~ sockOpen'
               /\ protocolState' # "AuthenticationTypes") ]_vars

\* C7 happens: read() closed the socket in SecurityInit, before any list of
\* authentication types was written
C7_Witness ==
    /\ lastOp = "read"
    /\ lastFrom = "SecurityInit"
    /\ protocolState = "SecurityInit"
    /\ lastOpen
    /\ ~ sockOpen
    /\ sockOut = << ProtocolVersionMsg, << 1, rfbSecTypeVeyon >> >>

\* C8: in AuthenticationTypes an authentication type that was not advertised
\* closes the socket in that read(): the authentication manager is not
\* called, nothing is written, neither auth type nor username is recorded and
\* the state stays AuthenticationTypes.
C8_UnsupportedAuthTypeCloses ==
    [][ (/\ ReadStep
         /\ protocolState = "AuthenticationTypes"
         /\ MessageReceived
         /\ ChosenAuthType \notin SupportedSet)
        => (/\ ~ sockOpen'
            /\ lastRet' = FALSE
            /\ ~ lastAuthCalled'
            /\ authState' = authState
            /\ sockOut' = sockOut
            /\ authType' = authType
            /\ username' = username
            /\ hostAddress' = hostAddress
            /\ protocolState' = "AuthenticationTypes") ]_vars

\* C8 happens: read() closed the socket in AuthenticationTypes with the
\* authentication untouched
C8_Witness ==
    /\ lastOp = "read"
    /\ lastFrom = "AuthenticationTypes"
    /\ protocolState = "AuthenticationTypes"
    /\ lastOpen
    /\ ~ sockOpen
    /\ authState = "AuthInit"
    /\ authType = 0
    /\ username = << >>

\* the client chooses RfbVeyonAuth::None and the server advertised it
NoneChosen ==
    /\ protocolState = "AuthenticationTypes"
    /\ MessageReceived
    /\ ChosenAuthType = AuthNone
    /\ AuthNone \in SupportedSet

\* C9: choosing the advertised type None moves from AuthenticationTypes
\* straight to AccessControl: no acknowledgement and no success code is
\* written and the authentication manager is not called.
C9_NoneSkipsAuthentication ==
    [][ (ReadStep /\ NoneChosen)
        => (/\ protocolState' = "AccessControl"
            /\ lastRet' = TRUE
            /\ sockOut' = sockOut
            /\ sockOpen' = sockOpen
            /\ ~ lastAuthCalled'
            /\ authState' = authState) ]_vars

\* C9 happens: one read() took the connection from AuthenticationTypes to
\* AccessControl with the authentication untouched
C9_Witness ==
    /\ lastOp = "read"
    /\ lastFrom = "AuthenticationTypes"
    /\ protocolState = "AccessControl"
    /\ lastRet
    /\ authState = "AuthInit"
    /\ sockOut = << ProtocolVersionMsg, << 1, rfbSecTypeVeyon >>,
                    Frame(<< 2, AuthNone, AuthLogon >>) >>

\* C10: when the client chooses None, the peer address is in the client
\* record by the time the state becomes AccessControl.
C10_NoneCapturesPeerAddress ==
    [][ (ReadStep /\ NoneChosen)
        => (protocolState' = "AccessControl" /\ hostAddress' = PeerAddress) ]_vars

\* how many times the message msg was written to the socket
RECURSIVE TimesWritten(_, _)
TimesWritten(out, msg) ==
    IF out = << >>
    THEN 0
    ELSE (IF Head(out) = msg THEN 1 ELSE 0) + TimesWritten(Tail(out), msg)

StartStep == lastOp' = "start"

\* C11: start() acts only on a Disconnected connection: in any other state
\* it writes nothing and changes nothing, and so the version banner is
\* written at most once on a connection.
C11_StartOnlyWhenDisconnected ==
    [][ /\ (StartStep /\ protocolState # "Disconnected") => UNCHANGED connVars
        /\ TimesWritten(sockOut', ProtocolVersionMsg) <= 1 ]_vars

\* C11 happens: start() was called on a connection that had already left
\* Disconnected and had its banner written
C11_Witness ==
    /\ lastOp = "start"
    /\ lastFrom = "SecurityInit"
    /\ protocolState = "SecurityInit"
    /\ sockOpen
    /\ TimesWritten(sockOut, ProtocolVersionMsg) = 1

\* the fatal conditions, each told from the state read() is called in and
\* from what the managers answered in the call
MalformedBanner ==
    /\ protocolState = "Protocol"
    /\ bytesAvailable(Conn) = sz_rfbProtocolVersionMsg
    /\ sscanfProtocolVersion(sockIn) # 2

WrongSecurityType ==
    /\ protocolState = "SecurityInit"
    /\ bytesAvailable(Conn) >= 1
    /\ sockIn[1] # rfbSecTypeVeyon

UnsupportedAuthType ==
    /\ protocolState = "AuthenticationTypes"
    /\ MessageReceived
    /\ ChosenAuthType \notin SupportedSet

AuthenticationFailed == lastAuthCalled' /\ authState' = "AuthFinishedFail"

\* the default branch of processAccessControl(): the manager has left the
\* client neither approved nor undecided (Failed, or still Init)
AccessDenied ==
    /\ protocolState = "AccessControl"
    /\ accessControlState' \notin { "AccessControlSuccessful", "AccessControlPending",
                                    "AccessControlWaiting" }

FatalCondition ==
    \/ MalformedBanner
    \/ WrongSecurityType
    \/ UnsupportedAuthType
    \/ AuthenticationFailed
    \/ AccessDenied

\* the state a fatal condition leaves behind: the socket is closed
ClosedAfterFatal == ~ sockOpen

ReadDoesNothing ==
    /\ lastRet' = FALSE
    /\ sockOut' = sockOut
    /\ protocolState' = protocolState
    /\ accessControlState' = accessControlState

\* C12: a read() that meets a fatal condition closes the socket, returns
\* false and leaves the protocol state as it was when the condition was met
\* (Authenticating, when the authentication fails on the empty message of
\* the call that began in AuthenticationTypes), and every read() on the
\* closed connection returns false, writes nothing and changes neither the
\* protocol state nor the access control state.
C12_FatalClosesAndStateStays ==
    [][ /\ (ReadStep /\ FatalCondition)
            => (/\ ~ sockOpen'
                /\ lastRet' = FALSE
                /\ protocolState' =
                       IF AuthenticationFailed /\ protocolState = "AuthenticationTypes"
                       THEN "Authenticating"
                       ELSE protocolState)
        /\ (ReadStep /\ ClosedAfterFatal) => ReadDoesNothing ]_vars

\* the writes of the protocol itself: all writes but the messages the
\* authentication manager sends while the exchange goes on
ServerWrites == SelectSeq(sockOut, LAMBDA w : w # Frame(AuthChallenge))

\* the six writes of a handshake with authentication, in their order
HandshakeWrites ==
    << ProtocolVersionMsg,
       << 1, rfbSecTypeVeyon >>,
       Frame(<< Len(supportedAuthTypes) >> \o supportedAuthTypes),
       Frame(<< >>),
       BigEndian32(rfbVncAuthOK),
       serverInitMessage >>

\* C13: on a connection that is Running with an authentication type other
\* than None, the protocol has written the banner, the security types, the
\* authentication types, the acknowledgement, the success code and the
\* server init message, in this order and each once.
C13_WritesInOrderEachOnce ==
    (protocolState = "Running" /\ authType # 0) => ServerWrites = HandshakeWrites

\* C14: a connection in FramebufferInit or Running has passed access control
\* and has either authenticated or chosen the advertised type None, whenever
\* the notifications arrive.
C14_NoRunningWithoutAuthentication ==
    protocolState \in { "FramebufferInit", "Running" }
        => (/\ accessControlState = "AccessControlSuccessful"
            /\ \/ authState = "AuthFinishedSuccess"
               \/ (/\ AuthNone \in SupportedSet
                   /\ authType = 0
                   /\ clientStep \notin { "banner", "sectype", "authtype" }))

\* what is written before the authentication manager is called: the
\* acknowledgement, when the call is the one that chooses the type
WrittenBeforeAuthentication ==
    IF protocolState = "AuthenticationTypes" THEN << Frame(<< >>) >> ELSE << >>

\* C15: after every message handed to the authentication manager, the empty
\* one that starts the exchange included: on AuthFinishedSuccess the 4-byte
\* success code is written and the state becomes AccessControl; on
\* AuthFinishedFail the socket is closed and the state is Authenticating;
\* otherwise the protocol writes nothing (the manager writes its own next
\* message) and the state is Authenticating. The success code is written at
\* most once.
C15_AuthenticationOutcome ==
    [][ /\ (ReadStep /\ lastAuthCalled')
            => CASE authState' = "AuthFinishedSuccess" ->
                        /\ sockOut' = sockOut \o WrittenBeforeAuthentication
                                              \o << BigEndian32(rfbVncAuthOK) >>
                        /\ protocolState' = "AccessControl"
                        /\ sockOpen'
                 [] authState' = "AuthFinishedFail" ->
                        /\ ~ sockOpen'
                        /\ protocolState' = "Authenticating"
                        /\ sockOut' = sockOut \o WrittenBeforeAuthentication
                 [] OTHER ->
                        /\ sockOut' = sockOut \o WrittenBeforeAuthentication
                                              \o << Frame(AuthChallenge) >>
                        /\ protocolState' = "Authenticating"
                        /\ sockOpen'
        /\ TimesWritten(sockOut', BigEndian32(rfbVncAuthOK)) <= 1 ]_vars

\* C15 happens: a message of the client was handed to the manager in
\* Authenticating, after a round that had left the exchange open, and the
\* manager accepted it
C15_Witness ==
    /\ lastOp = "read"
    /\ lastAuthCalled
    /\ lastFrom = "Authenticating"
    /\ authState = "AuthFinishedSuccess"
    /\ protocolState = "AccessControl"
    /\ lastRet
    /\ sockOut = << ProtocolVersionMsg, << 1, rfbSecTypeVeyon >>,
                    Frame(<< 1, AuthLogon >>), Frame(<< >>),
                    Frame(AuthChallenge), BigEndian32(rfbVncAuthOK) >>

OtherNotifyStep == lastOp' = "finishAccessControlOther"

\* C16: a notification for another connection changes nothing: the protocol
\* state and the access control state stay, the client is not submitted to
\* the access control manager, nothing is read or written and the socket is
\* not closed.
C16_OtherClientNotificationIgnored ==
    [][ OtherNotifyStep => (UNCHANGED connVars /\ ~ lastAdded' /\ ~ lastAuthCalled') ]_vars

\* C16 happens: a notification for another connection arrived while this one
\* was approved, in AccessControl, with the client-init already buffered
C16_Witness ==
    /\ lastOp = "finishAccessControlOther"
    /\ protocolState = "AccessControl"
    /\ accessControlState = "AccessControlSuccessful"
    /\ sockOpen
    /\ sockIn # << >>
    /\ serverInitMessage # << >>

\* a step that runs processAccessControl() once and nothing after it: a
\* read() in AccessControl
AccessControlStep == ReadStep /\ protocolState = "AccessControl"

\* C17: processAccessControl() submits the client to the access control
\* manager exactly when the access control state is Init or Waiting; with
\* the state the manager leaves, Successful advances to FramebufferInit,
\* Pending and Waiting leave the connection open in AccessControl, and
\* anything else (Failed, or still Init) closes the socket.
C17_SubmitsWhenInitOrWaiting ==
    [][ /\ (AccessControlStep \/ NotifyStep)
            => (lastAdded' <=> accessControlState \in { "AccessControlInit",
                                                         "AccessControlWaiting" })
        /\ AccessControlStep
            => CASE accessControlState' = "AccessControlSuccessful" ->
                        /\ protocolState' = "FramebufferInit"
                        /\ lastRet'
                        /\ sockOpen' = sockOpen
                 [] accessControlState' \in { "AccessControlPending",
                                              "AccessControlWaiting" } ->
                        /\ protocolState' = "AccessControl"
                        /\ ~ lastRet'
                        /\ sockOpen' = sockOpen
                 [] OTHER ->
                        /\ protocolState' = "AccessControl"
                        /\ ~ lastRet'
                        /\ ~ sockOpen' ]_vars

\* C17 happens: a read() in AccessControl submitted a client that was Waiting
\* again, and the manager left it Waiting
C17_Witness ==
    /\ lastOp = "read"
    /\ lastFrom = "AccessControl"
    /\ lastAdded
    /\ accessControlState = "AccessControlWaiting"
    /\ protocolState = "AccessControl"
    /\ sockOpen
    /\ ~ lastRet

FramebufferInitStep == ReadStep /\ protocolState = "FramebufferInit"

\* C18: a read() in FramebufferInit advances to Running only with a whole
\* client-init buffered and a server init message set; without the message
\* it returns false and reads nothing; when it advances it reads exactly the
\* client-init and writes the server init message once. A state becomes
\* Running only in a step that writes the server init message.
C18_FramebufferInitNeedsPayload ==
    [][ /\ FramebufferInitStep
            => IF bytesAvailable(Conn) >= sz_rfbClientInitMsg /\ serverInitMessage # << >>
               THEN /\ protocolState' = "Running"
                    /\ lastRet'
                    /\ sockIn' = SubSeq(sockIn, sz_rfbClientInitMsg + 1, Len(sockIn))
                    /\ sockOut' = sockOut \o << serverInitMessage >>
               ELSE /\ protocolState' = "FramebufferInit"
                    /\ ~ lastRet'
                    /\ sockIn' = sockIn
                    /\ sockOut' = sockOut
        /\ (protocolState # "Running" /\ protocolState' = "Running")
            => (/\ serverInitMessage # << >>
                /\ Len(sockOut') > Len(sockOut)
                /\ sockOut'[Len(sockOut')] = serverInitMessage) ]_vars

\* C18 happens: read() was called in FramebufferInit with the client-init
\* buffered and no server init message, and did nothing
C18_Witness ==
    /\ lastOp = "read"
    /\ lastFrom = "FramebufferInit"
    /\ protocolState = "FramebufferInit"
    /\ serverInitMessage = << >>
    /\ Len(sockIn) >= sz_rfbClientInitMsg
    /\ sockOpen
    /\ ~ lastRet

\* a whole message is buffered and does not decode
MalformedMessage == isReadyForReceive(Conn) /\ ~ receive(Conn).ret

\* C19: in AuthenticationTypes and in Authenticating a message that is ready
\* for receive and does not decode closes the socket, as a malformed banner
\* does in Protocol; only incomplete input makes read() wait.
C19_MalformedMessageCloses ==
    [][ /\ (ReadStep /\ MalformedBanner) => (~ sockOpen' /\ ~ lastRet')
        /\ (/\ ReadStep
            /\ protocolState \in { "AuthenticationTypes", "Authenticating" }
            /\ MalformedMessage) => (~ sockOpen' /\ ~ lastRet') ]_vars

\* C20: a read() that returns true has moved the protocol state to a later
\* one and has not closed the socket.
C20_TrueMeansLaterState ==
    [][ (ReadStep /\ lastRet')
        => (/\ StateRank(protocolState') > StateRank(protocolState)
            /\ sockOpen' = sockOpen) ]_vars

\* C20 happens: a read() returned true and left the last state but one
C20_Witness ==
    /\ lastOp = "read"
    /\ lastRet
    /\ lastFrom = "FramebufferInit"
    /\ protocolState = "Running"
    /\ sockOpen

====
